---- MODULE Spec2Model ----
(***************************************************************************)
(* The schema-migration engine of backend/pkg/migrate (append-only         *)
(* version store: one row per applied version, CurrentVersion =            *)
(* MAX(version)).  One Migrator runs one public operation at a time        *)
(* against one database; every database call may fail.                     *)
(***************************************************************************)
EXTENDS Integers, Sequences, FiniteSets, TLC

\* Largest maxVersion of a loaded migration set.
MaxV == 3
\* Largest |n| passed to Steps(n).
MaxSteps == 3
\* maxVersion of the migration set of the retry runs.
RetryMaxV == 6
\* Largest number of entries of a mixed directory listing.
MaxFiles == 3
\* A version far above the others of a listing.
BigV == 6
\* Largest number of versions of a directory of up-scripts only.
MaxUpOnly == 11

VARIABLES
    tableExists,     \* the "migrations" tracking table exists (committed)
    rows,            \* versions held by the tracking table (committed)
    objs,            \* schema objects created by migration scripts (committed)
    txOpen,          \* a transaction of the Migrator's connection is open
    txRows,          \* tracking-table rows as seen inside the open transaction
    txObjs,          \* schema objects as seen inside the open transaction
    migrations,      \* m.migrations: the loaded migration set
    op,              \* the public operation running ("none" before the first)
    steps,           \* argument of Steps
    pc,              \* position inside the operation
    currentVersion,  \* local currentVersion of Up / Down / Steps
    version,         \* local version of the forward loops
    i,               \* loop counter of Steps
    mig,             \* migration handed to applyMigration (its index, 0 = none)
    up,              \* direction handed to applyMigration
    stmt,            \* index into strings.Split(sql, ";") inside applyMigration
    err,             \* error returned by the operation
    cancelled,       \* ctx.Err() != nil
    cv0,             \* history: CurrentVersion() when the operation was called
    applied,         \* history: applies committed by this operation, in order
    invoked,         \* history: applyMigration invocations of this operation
    injected,        \* history: a database call of this operation was made to fail
    origin,          \* history: where Steps(-steps) started, if this operation is
                     \* Steps(steps) called right after it succeeded; else -1
    retryOf,         \* history: where the previous operation started, if this one
                     \* is an Up() called right after an Up() or Steps(n > 0)
                     \* that failed in the applier; else -1
    dir,             \* the migrations directory, in the order the file system
                     \* holds its entries
    conn,            \* the connection of NewMigrator: "none", "open" or "closed"
    seen,            \* what the last version query of another connection
                     \* returned (-1: none yet)
    command,         \* os.Args[1] of the command-line program ("none": the
                     \* package is used as a library)
    exit,            \* exit status of the command-line program (-1: running)
    other            \* a second Migrator on its own connection: its position,
                     \* locals, transaction and committed applies

vars == <<tableExists, rows, objs, txOpen, txRows, txObjs, migrations, op, steps,
          pc, currentVersion, version, i, mig, up, stmt, err, cancelled,
          cv0, applied, invoked, injected, origin, retryOf, dir, conn,
          seen, command, exit, other>>

dbVars == <<tableExists, rows, objs>>
txVars == <<txOpen, txRows, txObjs>>
histVars == <<cv0, applied, invoked, injected, origin, retryOf>>
envVars == <<seen, command, exit, other>>

----------------------------------------------------------------------------
(* Scripts.  A script is the result of strings.Split(sql, ";"): a sequence *)
(* of pieces, "S" a statement and "" a piece that is blank after           *)
(* TrimSpace.  The empty (or missing, or whitespace-only) file is <<"">>.  *)

EmptySQL == <<"">>
\* "stmt1; ; stmt2;"  -- two statements, one blank piece between, one after
TwoStmtSQL == <<"S", "", "S", "">>

\* A file that holds only white space: not the empty string, blank after
\* TrimSpace.
WhitespaceSQL == <<" ">>

\* strings.TrimSpace(stmt) == "" for one piece of a script
IsBlankPiece(piece) == piece \in {"", " "}

\* strings.TrimSpace(sql) == ""
IsBlank(sql) == Len(sql) = 1 /\ IsBlankPiece(sql[1])

Migration(v, upSQL, downSQL) == [Version |-> v, UpSQL |-> upSQL, DownSQL |-> downSQL]

\* The migration sets loadMigrations accepts: versions 0..maxV, each with a
\* non-empty up-script.  Version 0 has no down-script file (as in
\* backend/migrations); any other version may lack a usable one: the file is
\* missing (or empty) for all of those, or holds only white space for all.
MigrationSets ==
    { [k \in 1..(maxV + 1) |->
          Migration(k - 1, TwoStmtSQL,
                    IF k - 1 = 0 THEN EmptySQL
                    ELSE IF (k - 1) \in downs THEN TwoStmtSQL ELSE blank)] :
        maxV \in 0..MaxV, downs \in SUBSET (1..MaxV), blank \in {EmptySQL, WhitespaceSQL} }

maxVersion == Len(migrations) - 1

SetMax(S) == CHOOSE x \in S : \A y \in S : y <= x

----------------------------------------------------------------------------
(* The loader.  A directory entry is its name, cut into the six-character  *)
(* prefix (the version it parses to, -1 when strconv.Atoi rejects it or    *)
(* the name is shorter), the description and the suffix, whether it is a   *)
(* subdirectory, and the content of the file.                              *)

File(v, desc, suffix, data) ==
    [prefix |-> v, desc |-> desc, suffix |-> suffix, isDir |-> FALSE, data |-> data]

SubDir(v, desc, suffix) ==
    [prefix |-> v, desc |-> desc, suffix |-> suffix, isDir |-> TRUE, data |-> EmptySQL]

\* Rank of a name among the names of a directory, as strings compare: the
\* zero-padded prefix first (letters after digits), then the description,
\* then the suffix (".down.sql" < ".txt" < ".up.sql").
DescRank(d) == IF d = "a" THEN 1 ELSE IF d = "b" THEN 2 ELSE 3
SuffixRank(x) == IF x = "down" THEN 1 ELSE IF x = "other" THEN 2 ELSE 3
NameLess(e, f) ==
    LET pe == IF e.prefix < 0 THEN 1000000 ELSE e.prefix
        pf == IF f.prefix < 0 THEN 1000000 ELSE f.prefix
    IN \/ pe < pf
       \/ pe = pf /\ DescRank(e.desc) < DescRank(f.desc)
       \/ pe = pf /\ e.desc = f.desc /\ SuffixRank(e.suffix) < SuffixRank(f.suffix)

RECURSIVE SortedByName(_)
SortedByName(S) ==
    IF S = {} THEN <<>>
    ELSE LET first == CHOOSE e \in S : \A f \in S \ {e} : NameLess(e, f)
         IN <<first>> \o SortedByName(S \ {first})

Range(q) == {q[k] : k \in 1..Len(q)}

\* A directory read that hands the entries over as the file system holds them.
ReadDirUnsorted(d) == d

\* os.ReadDir: all the entries of the directory, sorted by file name.
ReadDir(d) == SortedByName(Range(d))

\* Migration{}
ZeroMigration == Migration(0, EmptySQL, EmptySQL)

\* make([]Migration, fileCount/2+5)
Capacity(fileCount) == (fileCount \div 2) + 5

\* The loop over the entries, from entry k on; indexing past the end of the
\* slice panics.  os.ReadFile fails on entry number bad (0: on none).
RECURSIVE LoadLoop(_, _, _, _, _)
LoadLoop(es, k, arr, maxV, bad) ==
    IF k > Len(es) THEN [status |-> "ok", arr |-> arr, maxV |-> maxV]
    ELSE LET e == es[k] IN
         IF e.isDir \/ e.prefix < 0 \/ e.suffix \notin {"up", "down"}
         THEN LoadLoop(es, k + 1, arr, maxV, bad)
         ELSE IF e.prefix >= Len(arr)
         THEN [status |-> "panic", arr |-> arr, maxV |-> maxV]
         ELSE IF k = bad
         THEN [status |-> "read file", arr |-> arr, maxV |-> maxV]
         ELSE LET at == e.prefix + 1
                  a1 == IF arr[at] = ZeroMigration
                        THEN [arr EXCEPT ![at] = Migration(e.prefix, EmptySQL, EmptySQL)]
                        ELSE arr
                  a2 == IF e.suffix = "up"
                        THEN [a1 EXCEPT ![at].UpSQL = e.data]
                        ELSE [a1 EXCEPT ![at].DownSQL = e.data]
              IN LoadLoop(es, k + 1, a2, IF e.prefix > maxV THEN e.prefix ELSE maxV, bad)

\* loadMigrations on the entries os.ReadDir returned.
LoadMigrations(es, bad) ==
    LET r == LoadLoop(es, 1, [k \in 1..Capacity(Len(es)) |-> ZeroMigration], -1, bad) IN
    IF r.status \in {"panic", "read file"}
    THEN [status |-> r.status, migrations |-> <<>>]
    ELSE IF r.maxV = -1
    THEN [status |-> "no valid migration files", migrations |-> <<>>]
    ELSE IF \E v \in 0..r.maxV : r.arr[v + 1].UpSQL = EmptySQL
    THEN [status |-> "missing up.sql", migrations |-> <<>>]
    ELSE [status |-> "ok", migrations |-> SubSeq(r.arr, 1, r.maxV + 1)]

\* A second script, to tell two files of one version apart.
OtherSQL == <<"T", "">>

\* The entries mixed listings are made of: up files of versions 0, 1, 2 and
\* BigV, a second up file of version 1 with another content, an empty second
\* up file of version 0, down files (one of white space only), a
\* subdirectory named like an up file, a file without a numeric prefix and a
\* file with another suffix.
EntryUniverse ==
    { File(0, "a", "up", TwoStmtSQL),
      File(0, "b", "up", EmptySQL),
      File(1, "a", "up", TwoStmtSQL),
      File(1, "b", "up", OtherSQL),
      File(1, "a", "down", TwoStmtSQL),
      File(2, "a", "up", TwoStmtSQL),
      File(2, "a", "down", WhitespaceSQL),
      File(BigV, "a", "up", TwoStmtSQL),
      SubDir(1, "c", "up"),
      File(-1, "a", "up", TwoStmtSQL),
      File(0, "a", "other", TwoStmtSQL) }

\* A directory of n up files, versions 0..n-1, and no down file.
UpOnlyRun(n) == [k \in 1..n |-> File(k - 1, "a", "up", TwoStmtSQL)]

\* The directories, in the order the file system holds their entries: every
\* sequence of up to MaxFiles distinct entries, and the up-only directories.
Listings ==
    { q \in UNION { [1..n -> EntryUniverse] : n \in 0..MaxFiles } :
         \A j, k \in 1..Len(q) : j # k => q[j] # q[k] }
    \cup { UpOnlyRun(n) : n \in 1..MaxUpOnly }

\* The directory a migration set is loaded from: an up file per version and
\* a down file for each version whose down-script is not the empty string.
ListingOf(ms) ==
    SortedByName(
        {File(ms[k].Version, "a", "up", ms[k].UpSQL) : k \in 1..Len(ms)}
        \cup {File(ms[k].Version, "a", "down", ms[k].DownSQL) :
                k \in {j \in 1..Len(ms) : ms[j].DownSQL # EmptySQL}})

----------------------------------------------------------------------------
(* Errors.                                                                 *)

Err(kind, v, s, wrap) == [kind |-> kind, version |-> v, stmt |-> s, wrap |-> wrap]
NoErr == Err("nil", -1, 0, "")

\* No second Migrator.
NoOther ==
    [pc |-> "none", currentVersion |-> 0, version |-> 0, stmt |-> 0,
     txOpen |-> FALSE, txRows |-> {}, txObjs |-> {}, applied |-> <<>>, err |-> NoErr]

----------------------------------------------------------------------------
(* The database.                                                           *)

\* A version query that reads one row of the table, the lowest, instead of
\* the maximum.
CurrentVersionFirstRow(exists, rs) ==
    IF ~exists THEN 0
    ELSE IF rs = {} THEN 0
    ELSE CHOOSE v \in rs : \A w \in rs : v <= w

\* SELECT MAX(version) FROM migrations, as GetCurrentVersion maps it to an int.
CurrentVersionOf(exists, rs) ==
    IF ~exists THEN 0            \* 42P01: table does not exist
    ELSE IF rs = {} THEN 0       \* MAX() is NULL
    ELSE SetMax(rs)

CurrentVersion == CurrentVersionOf(tableExists, rows)

Init ==
    /\ tableExists \in BOOLEAN
    /\ rows \in IF tableExists THEN {{}, {0}} ELSE {{}}
    /\ objs = {}
    /\ txOpen = FALSE
    /\ txRows = rows
    /\ txObjs = objs
    /\ migrations \in MigrationSets
    /\ op = "none"
    /\ steps = 0
    /\ pc = "done"
    /\ currentVersion = 0
    /\ version = 0
    /\ i = 0
    /\ mig = 0
    /\ up = TRUE
    /\ stmt = 0
    /\ err = NoErr
    /\ cancelled = FALSE
    /\ cv0 = CurrentVersion
    /\ applied = <<>>
    /\ invoked = 0
    /\ injected = FALSE
    /\ origin = -1
    /\ retryOf = -1
    /\ dir = ListingOf(migrations)
    /\ conn = "open"
    /\ seen = -1
    /\ command = "none"
    /\ exit = -1
    /\ other = NoOther

----------------------------------------------------------------------------
(* Pure steps of the code.                                                 *)

\* An Up that starts again at the version already recorded.
UpFirstVersionOffByOne(cv) == cv

\* Up: "for version := currentVersion + 1; ..."
UpFirstVersion(cv) == cv + 1

\* Steps, n > 0: "version := currentVersion + 1 + i"
StepsForwardVersion(cv, k) == cv + 1 + k

\* Steps, n < 0: "currentVersion = migrationToRollback.Version - 1"
StepsBackVersion(m) == m.Version - 1

\* Down / Steps: the backward search for the migration whose Version is cv;
\* 0 stands for the nil pointer.
FindMigration(ms, cv) ==
    IF \E j \in 1..Len(ms) : ms[j].Version = cv
    THEN SetMax({j \in 1..Len(ms) : ms[j].Version = cv})
    ELSE 0

\* applyMigration: the script of the requested direction.
ScriptOf(m, isUp) == IF isUp THEN m.UpSQL ELSE m.DownSQL

\* tx.Exec(ctx, stmt) of piece k of a script: statement k of the up-script of
\* version v creates schema object <<v, k>> (CREATE ... IF NOT EXISTS),
\* statement k of its down-script drops it (DROP ... IF EXISTS).
ExecStatement(os, v, isUp, k) == IF isUp THEN os \cup {<<v, k>>} ELSE os \ {<<v, k>>}

\* A version record that is written on the way up and never deleted.
RecordVersionInsertOnly(rs, v, isUp) == IF isUp THEN rs \cup {v} ELSE rs

\* INSERT ... ON CONFLICT (version) DO NOTHING  /  DELETE ... WHERE version = $1
RecordVersion(rs, v, isUp) == IF isUp THEN rs \cup {v} ELSE rs \ {v}

\* A rollback that leaves the work of the transaction in place.
RollbackKeepsWork(committed, work) == work

\* defer tx.Rollback(ctx): the committed state stays, the work is dropped.
Rollback(committed, work) == committed

\* tx.Commit(ctx): the work becomes the committed state.
CommitTx(committed, work) == work

\* How each caller wraps an error of applyMigration.
WrapOf(o, isUp) ==
    IF o \notin {"Up", "Steps"} THEN ""
    ELSE IF isUp THEN "failed to apply" ELSE "failed to rollback"

----------------------------------------------------------------------------
(* Calls.                                                                  *)

locals == <<currentVersion, version, i, mig, up, stmt>>

Call(o, n) ==
    /\ pc = "done"
    /\ conn = "open"
    /\ op' = o
    /\ steps' = n
    /\ pc' = IF o = "GetCurrentVersion" THEN "getver" ELSE "entry"
    /\ err' = NoErr
    /\ cancelled' = FALSE
    /\ currentVersion' = 0 /\ version' = 0 /\ i' = 0 /\ mig' = 0 /\ up' = TRUE /\ stmt' = 0
    /\ cv0' = CurrentVersion
    /\ applied' = <<>>
    /\ invoked' = 0
    /\ injected' = FALSE
    /\ origin' = IF o = "Steps" /\ op = "Steps" /\ n # 0 /\ steps = 0 - n /\ err = NoErr
                  THEN cv0 ELSE -1
    /\ retryOf' = IF o = "Up" /\ (op = "Up" \/ (op = "Steps" /\ steps > 0))
                      /\ err.wrap = "failed to apply"
                   THEN cv0 ELSE -1
    /\ UNCHANGED <<dbVars, txVars, migrations, dir, envVars, conn>>

CallUp == Call("Up", 0)

CallDown == Call("Down", 0)

CallSteps == \E n \in (0 - MaxSteps)..MaxSteps : Call("Steps", n)

CallGetCurrentVersion == Call("GetCurrentVersion", 0)

\* The command-line program starts again: the Migrator of the previous run is
\* gone (its connection closed by the deferred Close or by the exit of the
\* process) and NewMigrator is called.
CallNew ==
    /\ pc \in {"done", "crashed"}
    /\ op' = "NewMigrator"
    /\ steps' = 0
    /\ pc' = "new"
    /\ conn' = "none"
    /\ migrations' = <<>>
    /\ err' = NoErr
    /\ cancelled' = FALSE
    /\ currentVersion' = 0 /\ version' = 0 /\ i' = 0 /\ mig' = 0 /\ up' = TRUE /\ stmt' = 0
    /\ cv0' = CurrentVersion
    /\ applied' = <<>>
    /\ invoked' = 0
    /\ injected' = FALSE
    /\ origin' = -1
    /\ retryOf' = -1
    /\ UNCHANGED <<dbVars, txVars, dir, envVars>>

\* The caller's context is cancelled while the operation runs (or before its
\* first statement).
Cancel ==
    /\ pc \notin {"done", "crashed"}
    /\ ~cancelled
    /\ cancelled' = TRUE
    /\ UNCHANGED <<dbVars, txVars, migrations, dir, envVars, conn, op, steps, pc, locals, err, histVars>>

\* The operation returns e; nothing else changes.
Return(e) ==
    /\ pc' = "done"
    /\ err' = e
    /\ UNCHANGED <<dbVars, txVars, migrations, dir, envVars, conn, op, steps, locals, cancelled,
                   cv0, applied, invoked, origin, retryOf>>

\* An operation that starts on its work without looking at its context.
EntryNoCtxCheck ==
    /\ pc = "entry"
    /\ pc' = "getver"
    /\ UNCHANGED <<dbVars, txVars, migrations, dir, envVars, conn, op, steps, locals, err,
                   cancelled, histVars>>

\* "if err := ctx.Err(); err != nil" at the head of Up, Down and Steps.
Entry ==
    /\ pc = "entry"
    /\ IF cancelled
       THEN Return(Err("cancelled", -1, 0, "")) /\ UNCHANGED injected
       ELSE /\ pc' = "getver"
            /\ UNCHANGED <<dbVars, txVars, migrations, dir, envVars, conn, op, steps, locals, err,
                           cancelled, histVars>>

\* "if err := ctx.Err(); err != nil" at the head of NewMigrator.
NewEntry ==
    /\ pc = "new"
    /\ IF cancelled
       THEN Return(Err("cancelled", -1, 0, "")) /\ UNCHANGED injected
       ELSE /\ pc' = "connect"
            /\ UNCHANGED <<dbVars, txVars, migrations, dir, envVars, conn, op, steps, locals, err,
                           cancelled, histVars>>

\* conn, err := pgx.Connect(ctx, connectionString)
Connect ==
    /\ pc = "connect"
    /\ \E fail \in BOOLEAN :
         IF cancelled \/ fail
         THEN Return(Err("connect", -1, 0, "")) /\ injected' = (injected \/ ~cancelled)
         ELSE /\ conn' = "open"
              /\ pc' = "load"
              /\ UNCHANGED <<dbVars, txVars, migrations, dir, envVars, op, steps, locals, err,
                             cancelled, histVars>>

\* err = m.loadMigrations() and what NewMigrator does with it.  os.ReadDir
\* fails (bad = -1), or os.ReadFile fails on entry number bad, or neither
\* (bad = 0).  A panic of the loader ends the process where it stands.
Load ==
    /\ pc = "load"
    /\ \E bad \in -1..Len(dir) :
         LET r == IF bad = -1
                  THEN [status |-> "read dir", migrations |-> <<>>]
                  ELSE LoadMigrations(ReadDir(dir), bad)
         IN IF r.status = "ok"
            THEN /\ migrations' = r.migrations
                 /\ pc' = "done"
                 /\ err' = NoErr
                 /\ UNCHANGED <<dbVars, txVars, dir, envVars, conn, op, steps, locals, cancelled,
                                histVars>>
            ELSE IF r.status = "panic"
            THEN /\ pc' = "crashed"
                 /\ UNCHANGED <<dbVars, txVars, migrations, dir, envVars, conn, op, steps, locals,
                                err, cancelled, histVars>>
            ELSE /\ conn' = "closed"
                 /\ pc' = "done"
                 /\ err' = Err(r.status, -1, 0, "failed to load migrations")
                 /\ injected' = (injected \/ r.status \in {"read dir", "read file"})
                 /\ UNCHANGED <<dbVars, txVars, migrations, dir, envVars, op, steps, locals,
                                cancelled, cv0, applied, invoked, origin, retryOf>>

\* currentVersion, err := m.GetCurrentVersion(ctx)
GetVersion ==
    /\ pc = "getver"
    /\ IF cancelled
       THEN Return(Err("cancelled", -1, 0, "failed to get current version"))
            /\ UNCHANGED injected
       ELSE \E fail \in BOOLEAN :
              IF fail
              THEN Return(Err("query", -1, 0, "failed to get current version"))
                   /\ injected' = TRUE
              ELSE /\ currentVersion' = CurrentVersion
                   /\ version' = IF op = "Up" THEN UpFirstVersion(CurrentVersion) ELSE 0
                   /\ i' = 0
                   /\ pc' = IF op = "GetCurrentVersion" THEN "done" ELSE "loop"
                   /\ UNCHANGED <<dbVars, txVars, migrations, dir, envVars, conn, op, steps, mig, up, stmt,
                                  err, cancelled, histVars>>

\* m.applyMigration(ctx, m.migrations[k], isUp, currentVersion) is entered.
Invoke(k, isUp) ==
    /\ mig' = k
    /\ up' = isUp
    /\ invoked' = invoked + 1
    /\ pc' = "apply"

\* The loop of Up without the context check before each migration.
UpLoopNoCtxCheck ==
    /\ pc = "loop" /\ op = "Up"
    /\ IF version < Len(migrations)
       THEN /\ Invoke(version + 1, TRUE)
            /\ UNCHANGED <<dbVars, txVars, migrations, dir, envVars, conn, op, steps, currentVersion,
                           version, i, stmt, err, cancelled, cv0, applied,
                           injected, origin, retryOf>>
       ELSE Return(NoErr) /\ UNCHANGED injected

\* One evaluation of the loop of Up, up to the call of applyMigration.
UpLoop ==
    /\ pc = "loop" /\ op = "Up"
    /\ IF version < Len(migrations)
       THEN IF cancelled
            THEN Return(Err("cancelled", version, 0, "while applying")) /\ UNCHANGED injected
            ELSE /\ Invoke(version + 1, TRUE)
                 /\ UNCHANGED <<dbVars, txVars, migrations, dir, envVars, conn, op, steps, currentVersion,
                                version, i, stmt, err, cancelled, cv0, applied,
                                injected, origin, retryOf>>
       ELSE Return(NoErr) /\ UNCHANGED injected

\* One evaluation of the forward loop of Steps (steps > 0).
StepsForwardLoop ==
    /\ pc = "loop" /\ op = "Steps" /\ steps > 0
    /\ IF i < steps /\ StepsForwardVersion(currentVersion, i) < Len(migrations)
       THEN LET v == StepsForwardVersion(currentVersion, i) IN
            IF cancelled
            THEN Return(Err("cancelled", v, 0, "while applying")) /\ UNCHANGED injected
            ELSE /\ version' = v
                 /\ Invoke(v + 1, TRUE)
                 /\ UNCHANGED <<dbVars, txVars, migrations, dir, envVars, conn, op, steps, currentVersion,
                                i, stmt, err, cancelled, cv0, applied,
                                injected, origin, retryOf>>
       ELSE Return(NoErr) /\ UNCHANGED injected

\* The checks of a rollback without the one for version 0.
RollbackStepNoZeroCheck(checkCtx) ==
    IF checkCtx /\ cancelled
    THEN Return(Err("cancelled", currentVersion, 0, "while rolling back")) /\ UNCHANGED injected
    ELSE LET k == FindMigration(migrations, currentVersion) IN
         IF k = 0
         THEN Return(Err("not found", currentVersion, 0, "")) /\ UNCHANGED injected
         ELSE IF IsBlank(migrations[k].DownSQL)
         THEN Return(Err("no down.sql", currentVersion, 0, "")) /\ UNCHANGED injected
         ELSE /\ Invoke(k, FALSE)
              /\ UNCHANGED <<dbVars, txVars, migrations, dir, envVars, conn, op, steps, currentVersion,
                             version, i, stmt, err, cancelled, cv0, applied,
                             injected, origin, retryOf>>

\* The checks of Down, and of one iteration of the backward loop of Steps,
\* from "currentVersion == 0" to the call of applyMigration.
RollbackStep(checkCtx) ==
    IF currentVersion = 0
    THEN Return(Err("no migrations to rollback", -1, 0, "")) /\ UNCHANGED injected
    ELSE IF checkCtx /\ cancelled
    THEN Return(Err("cancelled", currentVersion, 0, "while rolling back")) /\ UNCHANGED injected
    ELSE LET k == FindMigration(migrations, currentVersion) IN
         IF k = 0
         THEN Return(Err("not found", currentVersion, 0, "")) /\ UNCHANGED injected
         ELSE IF IsBlank(migrations[k].DownSQL)
         THEN Return(Err("no down.sql", currentVersion, 0, "")) /\ UNCHANGED injected
         ELSE /\ Invoke(k, FALSE)
              /\ UNCHANGED <<dbVars, txVars, migrations, dir, envVars, conn, op, steps, currentVersion,
                             version, i, stmt, err, cancelled, cv0, applied,
                             injected, origin, retryOf>>

StepsBackLoop ==
    /\ pc = "loop" /\ op = "Steps" /\ steps < 0
    /\ IF i < 0 - steps
       THEN RollbackStep(TRUE)
       ELSE Return(NoErr) /\ UNCHANGED injected

StepsZero ==
    /\ pc = "loop" /\ op = "Steps" /\ steps = 0
    /\ Return(NoErr) /\ UNCHANGED injected

DownBody ==
    /\ pc = "loop" /\ op = "Down"
    /\ RollbackStep(FALSE)

----------------------------------------------------------------------------
(* applyMigration.                                                         *)

\* A caller that does not return on an error of applyMigration but goes on
\* with its loop.
ApplyFailsAndGoesOn(kind, s) ==
    /\ pc' = IF op = "Down" THEN "done" ELSE "loop"
    /\ err' = Err(kind, migrations[mig].Version, s, WrapOf(op, up))
    /\ txOpen' = FALSE
    /\ txRows' = rows /\ txObjs' = objs
    /\ version' = IF op = "Up" THEN version + 1 ELSE version
    /\ i' = IF op = "Steps" THEN i + 1 ELSE i
    /\ UNCHANGED <<dbVars, migrations, dir, envVars, conn, op, steps, currentVersion, mig, up, stmt,
                   cancelled, cv0, applied, invoked, origin, retryOf>>

\* applyMigration returns e to its caller, which wraps and returns it; the
\* deferred tx.Rollback drops the work of an open transaction.
ApplyFails(kind, s) ==
    LET back == Rollback(<<rows, objs>>, <<txRows, txObjs>>) IN
    /\ pc' = "done"
    /\ err' = Err(kind, migrations[mig].Version, s, WrapOf(op, up))
    /\ txOpen' = FALSE
    /\ rows' = back[1] /\ objs' = back[2]
    /\ txRows' = back[1] /\ txObjs' = back[2]
    /\ UNCHANGED <<tableExists, migrations, dir, envVars, conn, op, steps, locals, cancelled,
                   cv0, applied, invoked, origin, retryOf>>

\* The context check and the empty-script check at the head of applyMigration.
ApplyEntry ==
    /\ pc = "apply"
    /\ IF cancelled
       THEN ApplyFails("cancelled", 0) /\ UNCHANGED injected
       ELSE IF IsBlank(ScriptOf(migrations[mig], up))
       THEN ApplyFails("empty script", 0) /\ UNCHANGED injected
       ELSE /\ pc' = "begin"
            /\ UNCHANGED <<dbVars, txVars, migrations, dir, envVars, conn, op, steps, locals, err,
                           cancelled, histVars>>

\* tx, err := m.conn.Begin(ctx)
Begin ==
    /\ pc = "begin"
    /\ \E fail \in BOOLEAN :
         IF cancelled \/ fail
         THEN ApplyFails("begin", 0) /\ injected' = (injected \/ ~cancelled)
         ELSE /\ txOpen' = TRUE
              /\ txRows' = rows
              /\ txObjs' = objs
              /\ stmt' = 1
              /\ pc' = "exec"
              /\ UNCHANGED <<dbVars, migrations, dir, envVars, conn, op, steps, currentVersion, version,
                             i, mig, up, err, cancelled, histVars>>

\* One iteration of "for i, stmt := range statements".
ExecStmt ==
    /\ pc = "exec"
    /\ LET sql == ScriptOf(migrations[mig], up) IN
       IF stmt > Len(sql)
       THEN /\ pc' = "record"
            /\ UNCHANGED <<dbVars, txVars, migrations, dir, envVars, conn, op, steps, locals, err,
                           cancelled, histVars>>
       ELSE IF IsBlankPiece(sql[stmt])
       THEN /\ stmt' = stmt + 1
            /\ UNCHANGED <<dbVars, txVars, migrations, dir, envVars, conn, op, steps, pc, currentVersion,
                           version, i, mig, up, err, cancelled, histVars>>
       ELSE \E fail \in BOOLEAN :
              IF cancelled \/ fail
              THEN ApplyFails("exec", stmt) /\ injected' = (injected \/ ~cancelled)
              ELSE /\ txObjs' = ExecStatement(txObjs, migrations[mig].Version, up, stmt)
                   /\ stmt' = stmt + 1
                   /\ UNCHANGED <<dbVars, txOpen, txRows, migrations, dir, envVars, conn, op, steps, pc,
                                  currentVersion, version, i, mig, up, err, cancelled,
                                  histVars>>

\* A version record by a plain INSERT, which fails on a version that is
\* already in the table.
RecordPlainInsert ==
    /\ pc = "record"
    /\ \E fail \in BOOLEAN :
         IF cancelled \/ fail \/ ~tableExists
            \/ (up /\ migrations[mig].Version \in txRows)
         THEN ApplyFails("record", 0)
              /\ injected' = (injected \/ (~cancelled /\ tableExists /\ fail))
         ELSE /\ txRows' = RecordVersion(txRows, migrations[mig].Version, up)
              /\ pc' = "commit"
              /\ UNCHANGED <<dbVars, txOpen, txObjs, migrations, dir, envVars, conn, op, steps,
                             locals, err, cancelled, histVars>>

\* The INSERT (up) or DELETE (down) on the tracking table, inside the
\* transaction.  It fails when the table does not exist.
Record ==
    /\ pc = "record"
    /\ \E fail \in BOOLEAN :
         IF cancelled \/ fail \/ ~tableExists
         THEN ApplyFails("record", 0)
              /\ injected' = (injected \/ (~cancelled /\ tableExists))
         ELSE /\ txRows' = RecordVersion(txRows, migrations[mig].Version, up)
              /\ pc' = "commit"
              /\ UNCHANGED <<dbVars, txOpen, txObjs, migrations, dir, envVars, conn, op, steps, locals,
                             err, cancelled, histVars>>

\* tx.Commit(ctx), and on success the caller's bookkeeping after the call.
Commit ==
    /\ pc = "commit"
    /\ \E fail \in BOOLEAN :
         IF cancelled \/ fail
         THEN ApplyFails("commit", 0) /\ injected' = (injected \/ ~cancelled)
         ELSE LET new == CommitTx(<<rows, objs>>, <<txRows, txObjs>>) IN
              /\ rows' = new[1] /\ objs' = new[2]
              /\ txRows' = new[1] /\ txObjs' = new[2]
              /\ txOpen' = FALSE
              /\ applied' = Append(applied, <<migrations[mig].Version, up>>)
              /\ IF op = "Up"
                 THEN /\ currentVersion' = version
                      /\ version' = version + 1
                      /\ pc' = "loop"
                      /\ UNCHANGED <<i, err>>
                 ELSE IF op = "Steps" /\ up
                 THEN /\ currentVersion' = version
                      /\ i' = i + 1
                      /\ pc' = "loop"
                      /\ UNCHANGED <<version, err>>
                 ELSE IF op = "Steps"
                 THEN /\ currentVersion' = StepsBackVersion(migrations[mig])
                      /\ i' = i + 1
                      /\ pc' = "loop"
                      /\ UNCHANGED <<version, err>>
                 ELSE /\ pc' = "done"
                      /\ err' = NoErr
                      /\ UNCHANGED <<currentVersion, version, i>>
              /\ UNCHANGED <<tableExists, migrations, dir, envVars, conn, op, steps, mig, up, stmt,
                             cancelled, cv0, invoked, injected, origin, retryOf>>

----------------------------------------------------------------------------
(* The single-row implementation of the version store: what differs from   *)
(* the append-only one.  Up, Down, Steps, the checks and the transaction   *)
(* handling of applyMigration are the same code.                           *)

\* loadMigrations ending in "m.migrations = migrations": the whole slice,
\* zero Migrations above maxVersion included.
LoadMigrationsUnsliced(es) ==
    LET r == LoadLoop(es, 1, [k \in 1..Capacity(Len(es)) |-> ZeroMigration], -1, 0) IN
    IF r.status = "ok" /\ r.maxV >= 0
          /\ \A v \in 0..r.maxV : r.arr[v + 1].UpSQL # EmptySQL
    THEN r.arr
    ELSE <<>>

\* SELECT version FROM migrations LIMIT 1: the rows the query may return,
\* there being no ORDER BY; 0 stands for no row and for a missing table.
LimitOne(exists, rs) == IF ~exists \/ rs = {} THEN {0} ELSE rs

\* tx.Exec(ctx, sql) of a whole script: every statement of it, from piece k.
RECURSIVE ExecScript(_, _, _, _, _)
ExecScript(os, v, isUp, sql, k) ==
    IF k > Len(sql) THEN os
    ELSE ExecScript(IF IsBlankPiece(sql[k]) THEN os ELSE ExecStatement(os, v, isUp, k),
                    v, isUp, sql, k + 1)

\* newVersion of applyMigration.
NewVersion(m, isUp, cv) == IF isUp THEN m.Version ELSE cv - 1

\* INSERT INTO migrations (version) VALUES ($1)
\*     ON CONFLICT (version) DO UPDATE SET version = $1
UpsertVersion(rs, v) == rs \cup {v}

\* currentVersion, err := m.GetCurrentVersion(ctx)
GetVersionSingle ==
    /\ pc = "getver"
    /\ IF cancelled
       THEN Return(Err("cancelled", -1, 0, "failed to get current version"))
            /\ UNCHANGED injected
       ELSE \E fail \in BOOLEAN :
              IF fail
              THEN Return(Err("query", -1, 0, "failed to get current version"))
                   /\ injected' = TRUE
              ELSE \E v \in LimitOne(tableExists, rows) :
                   /\ currentVersion' = v
                   /\ version' = IF op = "Up" THEN UpFirstVersion(v) ELSE 0
                   /\ i' = 0
                   /\ pc' = IF op = "GetCurrentVersion" THEN "done" ELSE "loop"
                   /\ UNCHANGED <<dbVars, txVars, migrations, dir, envVars, conn, op, steps,
                                  mig, up, stmt, err, cancelled, histVars>>

\* tx.Exec(ctx, sql)
ExecSingle ==
    /\ pc = "exec"
    /\ \E fail \in BOOLEAN :
         IF cancelled \/ fail
         THEN ApplyFails("exec", 0) /\ injected' = (injected \/ ~cancelled)
         ELSE /\ txObjs' = ExecScript(txObjs, migrations[mig].Version, up,
                                      ScriptOf(migrations[mig], up), 1)
              /\ pc' = "record"
              /\ UNCHANGED <<dbVars, txOpen, txRows, migrations, dir, envVars, conn, op,
                             steps, locals, err, cancelled, histVars>>

\* The upsert of newVersion, inside the transaction.
RecordSingle ==
    /\ pc = "record"
    /\ \E fail \in BOOLEAN :
         IF cancelled \/ fail \/ ~tableExists
         THEN ApplyFails("record", 0)
              /\ injected' = (injected \/ (~cancelled /\ tableExists))
         ELSE /\ txRows' = UpsertVersion(txRows, NewVersion(migrations[mig], up, currentVersion))
              /\ pc' = "commit"
              /\ UNCHANGED <<dbVars, txOpen, txObjs, migrations, dir, envVars, conn, op, steps,
                             locals, err, cancelled, histVars>>

----------------------------------------------------------------------------
(* A reader on another connection.                                         *)

\* A query that sees the work of a transaction that is still open.
ReadUncommitted(committed, work) == work

\* A query of another connection sees the committed rows only.
ReadCommitted(committed, work) == committed

\* Another connection runs the query of GetCurrentVersion while a transaction
\* of applyMigration is open.
ReaderGetCurrentVersion ==
    /\ txOpen
    /\ seen' = CurrentVersionOf(tableExists, ReadCommitted(rows, txRows))
    /\ UNCHANGED <<dbVars, txVars, migrations, dir, conn, op, steps, pc, locals, err,
                   cancelled, histVars, command, exit, other>>

----------------------------------------------------------------------------
(* A second Migrator running Up() on its own connection, with a context    *)
(* that is never cancelled.                                                *)

\* What a step of the second Migrator leaves alone besides the database.
firstVars == <<txVars, migrations, dir, conn, op, steps, pc, locals, err, cancelled,
               histVars, seen, command, exit>>

\* Up or applyMigration of the second Migrator returns an error; the
\* deferred tx.Rollback drops the work of its open transaction.
OtherFails(kind) ==
    /\ other' = [other EXCEPT !.pc = "done",
                              !.err = Err(kind, other.version, other.stmt, "failed to apply"),
                              !.txOpen = FALSE,
                              !.txRows = rows,
                              !.txObjs = objs]
    /\ UNCHANGED <<dbVars, firstVars>>

\* "if err := ctx.Err(); err != nil" at the head of Up.
OtherEntry ==
    /\ other.pc = "entry"
    /\ other' = [other EXCEPT !.pc = "getver"]
    /\ UNCHANGED <<dbVars, firstVars>>

\* currentVersion, err := m.GetCurrentVersion(ctx)
OtherGetVersion ==
    /\ other.pc = "getver"
    /\ \E fail \in BOOLEAN :
         IF fail
         THEN OtherFails("query")
         ELSE /\ other' = [other EXCEPT !.pc = "loop",
                                        !.currentVersion = CurrentVersion,
                                        !.version = UpFirstVersion(CurrentVersion)]
              /\ UNCHANGED <<dbVars, firstVars>>

\* One evaluation of the loop of Up, up to the call of applyMigration.
OtherUpLoop ==
    /\ other.pc = "loop"
    /\ other' = [other EXCEPT !.pc = IF other.version < Len(migrations)
                                     THEN "apply" ELSE "done"]
    /\ UNCHANGED <<dbVars, firstVars>>

\* The empty-script check at the head of applyMigration.
OtherApplyEntry ==
    /\ other.pc = "apply"
    /\ IF IsBlank(migrations[other.version + 1].UpSQL)
       THEN OtherFails("empty script")
       ELSE /\ other' = [other EXCEPT !.pc = "begin"]
            /\ UNCHANGED <<dbVars, firstVars>>

\* tx, err := m.conn.Begin(ctx)
OtherBegin ==
    /\ other.pc = "begin"
    /\ \E fail \in BOOLEAN :
         IF fail
         THEN OtherFails("begin")
         ELSE /\ other' = [other EXCEPT !.pc = "exec", !.stmt = 1, !.txOpen = TRUE,
                                        !.txRows = rows, !.txObjs = objs]
              /\ UNCHANGED <<dbVars, firstVars>>

\* One iteration of "for i, stmt := range statements".
OtherExecStmt ==
    /\ other.pc = "exec"
    /\ LET sql == migrations[other.version + 1].UpSQL IN
       IF other.stmt > Len(sql)
       THEN /\ other' = [other EXCEPT !.pc = "record"]
            /\ UNCHANGED <<dbVars, firstVars>>
       ELSE IF IsBlankPiece(sql[other.stmt])
       THEN /\ other' = [other EXCEPT !.stmt = other.stmt + 1]
            /\ UNCHANGED <<dbVars, firstVars>>
       ELSE \E fail \in BOOLEAN :
              IF fail
              THEN OtherFails("exec")
              ELSE /\ other' = [other EXCEPT
                                  !.txObjs = ExecStatement(other.txObjs, other.version,
                                                           TRUE, other.stmt),
                                  !.stmt = other.stmt + 1]
                   /\ UNCHANGED <<dbVars, firstVars>>

\* The INSERT on the tracking table, inside the transaction.
OtherRecord ==
    /\ other.pc = "record"
    /\ \E fail \in BOOLEAN :
         IF fail \/ ~tableExists
         THEN OtherFails("record")
         ELSE /\ other' = [other EXCEPT
                             !.pc = "commit",
                             !.txRows = RecordVersion(other.txRows, other.version, TRUE)]
              /\ UNCHANGED <<dbVars, firstVars>>

\* tx.Commit(ctx), and on success "currentVersion = version; version++".
OtherCommit ==
    /\ other.pc = "commit"
    /\ \E fail \in BOOLEAN :
         IF fail
         THEN OtherFails("commit")
         ELSE LET new == CommitTx(<<rows, objs>>, <<other.txRows, other.txObjs>>) IN
              /\ rows' = new[1] /\ objs' = new[2]
              /\ other' = [other EXCEPT
                             !.pc = "loop",
                             !.txOpen = FALSE,
                             !.applied = Append(other.applied, <<other.version, TRUE>>),
                             !.currentVersion = other.version,
                             !.version = other.version + 1]
              /\ UNCHANGED <<tableExists, firstVars>>

----------------------------------------------------------------------------
(* The command-line program (cmd/migrate).                                 *)

Commands == {"up", "down", "steps", "version"}

\* The engine operation a command runs.
OpOf(c) ==
    IF c = "up" THEN "Up"
    ELSE IF c = "down" THEN "Down"
    ELSE IF c = "steps" THEN "Steps"
    ELSE "GetCurrentVersion"

\* A program that returns from main whatever the engine said.
ExitStatusAlwaysZero(e) == 0

\* log.Fatalf (os.Exit(1)) on an error, return from main otherwise.
ExitStatus(e) == IF e = NoErr THEN 0 ELSE 1

\* main after NewMigrator returned: log.Fatalf on its error, else the switch
\* on the command; "steps" without a number, or with one strconv.Atoi
\* rejects, exits with status 1 before the engine is called.
Dispatch ==
    /\ command \in Commands /\ exit = -1
    /\ pc = "done" /\ op = "NewMigrator"
    /\ IF err # NoErr
       THEN /\ exit' = ExitStatus(err)
            /\ UNCHANGED <<dbVars, txVars, migrations, dir, conn, op, steps, pc, locals,
                           err, cancelled, histVars, seen, command, other>>
       ELSE \/ \E n \in (0 - MaxSteps)..MaxSteps :
                 /\ (command # "steps" => n = 0)
                 /\ Call(OpOf(command), n)
            \/ /\ command = "steps"
               /\ exit' = 1
               /\ UNCHANGED <<dbVars, txVars, migrations, dir, conn, op, steps, pc, locals,
                              err, cancelled, histVars, seen, command, other>>

\* The handler of the command got the result of the engine operation; a
\* panic of the loader ends the process with status 2.
Exit ==
    /\ command \in Commands /\ exit = -1
    /\ \/ pc = "done" /\ op = OpOf(command) /\ exit' = ExitStatus(err)
       \/ pc = "crashed" /\ exit' = 2
    /\ UNCHANGED <<dbVars, txVars, migrations, dir, conn, op, steps, pc, locals,
                   err, cancelled, histVars, seen, command, other>>

----------------------------------------------------------------------------
(* Properties.                                                             *)

Min(a, b) == IF a < b THEN a ELSE b

\* No database call of the running operation was made to fail and its
\* context was not cancelled.
Clean == ~injected /\ ~cancelled

Returned(o) == pc = "done" /\ op = o

\* The error came out of applyMigration (Up and Steps wrap it, Down does not).
FromApplier ==
    err.kind \in {"empty script", "begin", "exec", "record", "commit"}
    \/ (err.kind = "cancelled" /\ err.version >= 0 /\ err.stmt = 0
        /\ err.wrap \in {"", "failed to apply", "failed to rollback"})

\* The versions a forward run from c over n steps is to apply, in order.
ForwardRun(c, n) == [k \in 1..(Min(c + n, maxVersion) - c) |-> <<c + k, TRUE>>]

\* C1: whatever the starting database (a fresh one without the tracking table
\* included), an Up() with no injected failure returns success and leaves
\* CurrentVersion() = maxVersion.
C1_UpReachesMaxVersion ==
    (Returned("Up") /\ Clean) => (err = NoErr /\ CurrentVersion = maxVersion)

\* C2: on a database without the tracking table, the first migration the
\* engine applies (in Up or Steps(n > 0)) is version 0.
C2_BootstrapAppliedFirst ==
    (pc = "apply" /\ ~tableExists /\ up /\ invoked = 1) => migrations[mig].Version = 0

\* C3: every up-direction apply is for the version one above the version
\* recorded at that moment, every down-direction apply for the recorded
\* version itself.
C3_NoSkipping ==
    pc = "apply" =>
        migrations[mig].Version = IF up THEN CurrentVersion + 1 ELSE CurrentVersion

\* C4: from recorded version c, Steps(n > 0) with no injected failure returns
\* success, has applied exactly c+1, ..., min(c+n, maxVersion) in that order,
\* and leaves CurrentVersion() = min(c+n, maxVersion).
C4_StepsForwardExact ==
    (Returned("Steps") /\ steps > 0 /\ tableExists /\ Clean) =>
        /\ err = NoErr
        /\ applied = ForwardRun(cv0, steps)
        /\ CurrentVersion = Min(cv0 + steps, maxVersion)

\* C5: round trip.  When Steps(n) and then Steps(-n) both succeed (and the
\* first was not cut short at maxVersion), CurrentVersion() is back at the
\* value it had before the first call.
C5_RoundTrip ==
    (Returned("Steps") /\ err = NoErr /\ origin >= 0
        /\ origin - steps <= maxVersion) =>
        CurrentVersion = origin

\* C6: an apply that fails after its transaction was requested (Begin, a
\* statement, the version record or the commit fails) leaves the committed
\* database, and so CurrentVersion(), as it was, with no transaction open.
C6_FailedApplyIsAtomic ==
    [][(pc \in {"begin", "exec", "record", "commit"} /\ pc' = "done" /\ err' # NoErr) =>
          (rows' = rows /\ objs' = objs /\ tableExists' = tableExists /\ ~txOpen'
           /\ CurrentVersion' = CurrentVersion)]_vars

\* C6 witness: the second statement of an up-script failed after the first had
\* run, and nothing of the script is in the database.
C6_Witness ==
    /\ pc = "done" /\ err.kind = "exec" /\ err.stmt = 3 /\ up
    /\ <<err.version, 1>> \notin objs
    /\ err.version \notin rows
    /\ ~txOpen

\* C7: Up() never invokes the applier again after an invocation that did not
\* commit, and returns success only if every invocation committed; when it
\* returns an applier error, that error is the failing migration's,
\* CurrentVersion() is the last version committed in the run (the starting
\* version if none), and what the run committed stays recorded and in effect.
C7_UpStopsAtFirstError ==
    /\ op = "Up" => invoked \in {Len(applied), Len(applied) + 1}
    /\ (Returned("Up") /\ err = NoErr) => invoked = Len(applied)
    /\ (Returned("Up") /\ FromApplier) =>
        /\ invoked = Len(applied) + 1
        /\ err.version = cv0 + invoked
        /\ CurrentVersion = cv0 + Len(applied)
        /\ \A k \in 1..Len(applied) :
              /\ applied[k] = <<cv0 + k, TRUE>>
              /\ (cv0 + k) \in rows
              /\ {<<cv0 + k, 1>>, <<cv0 + k, 3>>} \subseteq objs

\* C7 witness: Up() failed at its third migration; two are committed.
C7_Witness ==
    /\ Returned("Up") /\ FromApplier
    /\ Len(applied) = 2 /\ invoked = 3
    /\ CurrentVersion = cv0 + 2

\* C8: while an Up() called on a database already at maxVersion runs, the
\* applier is never invoked and the database does not change; with no injected
\* failure it returns no error.
C8_UpAtMaxVersionIsNoOp ==
    [][(op' = "Up" /\ cv0' = maxVersion) =>
          /\ invoked' = 0
          /\ UNCHANGED dbVars
          /\ (pc' = "done" /\ ~injected' /\ ~cancelled' => err' = NoErr)]_vars

\* C8 witness: an Up() on a database at maxVersion >= 1 has returned success.
C8_Witness ==
    /\ Returned("Up") /\ cv0 = maxVersion /\ maxVersion >= 1
    /\ err = NoErr /\ invoked = 0 /\ CurrentVersion = maxVersion

\* C9: every successful rollback step lowers CurrentVersion() by exactly 1: a
\* successful Down() ends one below where it started, a successful
\* Steps(n < 0) ends as many below as it committed rollbacks.
C9_RollbackLowersByOne ==
    /\ (Returned("Down") /\ err = NoErr) => CurrentVersion = cv0 - 1
    /\ (Returned("Steps") /\ steps < 0 /\ err = NoErr) =>
           CurrentVersion = cv0 - Len(applied)

\* The versions Steps(n < 0) from c is to roll back all have a down-script.
TouchedDownScripts(c, n) ==
    \A v \in 1..c : (v > c - n) => ~IsBlank(migrations[v + 1].DownSQL)

\* C10: Steps(n < 0) from recorded version c, down-scripts present and no
\* injected failure: with c >= |n| it commits |n| rollbacks and ends at
\* c - |n|; with c < |n| it commits c rollbacks, fails with the no-migrations
\* error and ends at 0.
C10_StepsBackExact ==
    (Returned("Steps") /\ steps < 0 /\ Clean /\ cv0 <= maxVersion
        /\ TouchedDownScripts(cv0, 0 - steps)) =>
        IF cv0 >= 0 - steps
        THEN err = NoErr /\ Len(applied) = 0 - steps /\ CurrentVersion = cv0 + steps
        ELSE /\ err.kind = "no migrations to rollback"
             /\ Len(applied) = cv0
             /\ CurrentVersion = 0

\* C11: while a Down() called with CurrentVersion() = 0 runs (tracking table
\* absent, empty, or holding only version 0), the applier is never invoked, no
\* transaction is open and the database does not change; it never returns
\* success, and with no injected failure and no cancellation the error is the
\* no-migrations error.
C11_DownAtZeroFails ==
    [][(op' = "Down" /\ cv0' = 0) =>
          /\ invoked' = 0
          /\ ~txOpen'
          /\ UNCHANGED dbVars
          /\ (pc' = "done" => err' # NoErr)
          /\ (pc' = "done" /\ ~injected' /\ ~cancelled' =>
                 err'.kind = "no migrations to rollback")]_vars

\* C11 witness: Down() on a table holding only version 0 has returned the
\* no-migrations error.
C11_Witness ==
    /\ Returned("Down") /\ cv0 = 0 /\ tableExists /\ rows = {0}
    /\ err.kind = "no migrations to rollback" /\ invoked = 0

\* The recorded version v is one of the loaded versions above 0 and its
\* down-script is missing, empty or only white space.
BlankDownAt(v) == v \in 1..maxVersion /\ IsBlank(migrations[v + 1].DownSQL)

\* C12: no transaction of a down-direction step (of Down() or Steps(n < 0)) is
\* ever open while the down-script of the version recorded as current is
\* missing, empty or only white space; a Down() called on such a version
\* returns the not-revertible (or empty-script) error with CurrentVersion()
\* as it was.
C12_BlankDownFailsBeforeTx ==
    /\ (txOpen /\ ~up) => ~BlankDownAt(CurrentVersion)
    /\ (Returned("Down") /\ Clean /\ BlankDownAt(cv0)) =>
           /\ err.kind \in {"no down.sql", "empty script"}
           /\ invoked = 0
           /\ CurrentVersion = cv0

\* C13: in every committed state, a version v >= 1 is in the tracking table
\* exactly when the objects its up-script creates are in the database.
C13_EffectsMatchRecord ==
    \A v \in 1..MaxV :
        /\ (v \in rows) <=> (<<v, 1>> \in objs)
        /\ (v \in rows) <=> (<<v, 3>> \in objs)

\* C13 witness: Down() has committed the rollback of version 2; version 1 is
\* still recorded with its objects, version 2 is neither.
C13_Witness ==
    /\ Returned("Down") /\ err = NoErr /\ applied = <<<<2, FALSE>>>>
    /\ 1 \in rows /\ <<1, 1>> \in objs
    /\ 2 \notin rows /\ <<2, 1>> \notin objs /\ <<2, 3>> \notin objs

\* C18: GetCurrentVersion returns 0 and no error when the tracking table is
\* absent or empty and the highest recorded version when it has rows; it
\* returns an error only when the query was made to fail (or the context was
\* cancelled), never because the table is absent.
C18_GetCurrentVersion ==
    Returned("GetCurrentVersion") =>
        /\ err = NoErr =>
              currentVersion = (IF ~tableExists \/ rows = {} THEN 0 ELSE SetMax(rows))
        /\ err # NoErr => (injected \/ cancelled)

\* C18 witness: GetCurrentVersion has returned 3 on a table holding 1 and 3.
C18_Witness ==
    /\ Returned("GetCurrentVersion") /\ err = NoErr
    /\ rows = {1, 3} /\ currentVersion = 3

\* The loop of the running Up() or Steps(n) has nothing left to run.
NothingLeft ==
    /\ pc = "loop"
    /\ invoked = Len(applied)
    /\ op = "Up" => version >= Len(migrations)
    /\ (op = "Steps" /\ steps > 0) =>
           (i >= steps \/ StepsForwardVersion(currentVersion, i) >= Len(migrations))
    /\ (op = "Steps" /\ steps < 0) => i >= 0 - steps

C20_CancelledAtCallFailsFast ==
    [][(cancelled /\ (pc \in {"new", "entry"}
                      \/ (pc = "getver" /\ op = "GetCurrentVersion"))) =>
          /\ pc' = "done"
          /\ err'.kind = "cancelled"
          /\ invoked' = 0
          /\ ~injected'
          /\ UNCHANGED <<dbVars, txVars, conn, migrations>>]_vars

\* C20 witness: NewMigrator returned the cancellation error without a
\* connection.
C20_Witness ==
    /\ Returned("NewMigrator") /\ cancelled
    /\ err = Err("cancelled", -1, 0, "")
    /\ conn = "none"

\* C14: an Up() called right after an Up() or Steps(n > 0) that failed at some
\* migration, itself running with no failure and no cancellation, returns
\* success and leaves every version above the one the failed run started from
\* recorded and in effect, as an uninterrupted Up() from there does.
C14_RetryCompletes ==
    (Returned("Up") /\ Clean /\ retryOf >= 0 /\ tableExists) =>
        /\ err = NoErr
        /\ \A v \in (retryOf + 1)..maxVersion :
              v \in rows /\ {<<v, 1>>, <<v, 3>>} \subseteq objs

\* The entries of a listing the loader takes for migration files.
ValidFiles(d) ==
    {e \in Range(d) : ~e.isDir /\ e.prefix >= 0 /\ e.suffix \in {"up", "down"}}

\* The highest version among the migration files of a listing.
ListingMax(d) == SetMax({e.prefix : e \in ValidFiles(d)})

\* The listing has an up file for version v.
HasUp(d, v) == \E e \in ValidFiles(d) : e.prefix = v /\ e.suffix = "up"

\* NewMigrator got as far as loadMigrations, which returned or crashed.
LoaderRan ==
    /\ op = "NewMigrator"
    /\ \/ pc = "crashed"
       \/ pc = "done" /\ err.kind \notin {"cancelled", "connect"}

\* C15: for every listing without a migration file, or with a version in
\* [0, maxVersion] that has no up file, whatever the gap, the loader returns a
\* load error: it neither succeeds nor crashes.
C15_LoaderFailsOnBadListing ==
    (LoaderRan /\ (ValidFiles(dir) = {}
                   \/ \E v \in 0..ListingMax(dir) : ~HasUp(dir, v))) =>
        /\ pc = "done"
        /\ err # NoErr
        /\ err.wrap = "failed to load migrations"

\* Every version in [0, maxVersion] of the listing has an up file, and every
\* up file is non-empty.
GoodListing(d) ==
    /\ ValidFiles(d) # {}
    /\ \A v \in 0..ListingMax(d) : HasUp(d, v)
    /\ \A e \in ValidFiles(d) : e.suffix = "up" => e.data # EmptySQL

\* C16: every listing in which each version in [0, maxVersion] has a non-empty
\* up file loads (no file read failing), with or without down files and for
\* any number of versions, into maxVersion + 1 migrations, the one at index i
\* having Version = i and a non-empty up-script.
C16_UpOnlyListingLoads ==
    (LoaderRan /\ ~injected /\ GoodListing(dir)) =>
        /\ pc = "done"
        /\ err = NoErr
        /\ Len(migrations) = ListingMax(dir) + 1
        /\ \A k \in 1..Len(migrations) :
              migrations[k].Version = k - 1 /\ migrations[k].UpSQL # EmptySQL

\* The orders a file system can hold the entries of d in.
Orderings(d) == {p \in [1..Len(d) -> Range(d)] : Range(p) = Range(d)}

\* What NewMigrator got from the loader.
LoadOutcome == IF pc = "crashed" THEN "panic" ELSE IF err = NoErr THEN "ok" ELSE err.kind

\* C17: what the loader produced for the directory (the error, the crash, or
\* the migration sequence with its scripts) is what it produces for every
\* other order the file system could hold the same entries in.
C17_LoadOrderIndependent ==
    (LoaderRan /\ ~injected /\ Len(dir) <= MaxFiles) =>
        \A p \in Orderings(dir) :
            LET r == LoadMigrations(ReadDir(p), 0) IN
            /\ r.status = LoadOutcome
            /\ r.status = "ok" => r.migrations = migrations

\* C17 witness: a directory held in reverse name order, with two up files for
\* version 1, has loaded; version 1 carries the script of the file whose name
\* sorts last.
C17_Witness ==
    /\ LoaderRan /\ err = NoErr /\ pc = "done"
    /\ dir = <<File(1, "b", "up", OtherSQL), File(1, "a", "up", TwoStmtSQL),
               File(0, "a", "up", TwoStmtSQL)>>
    /\ Len(migrations) = 2
    /\ migrations[2].UpSQL = OtherSQL

\* C21: whenever NewMigrator has ended without handing out a Migrator (it
\* returned an error, or the loader crashed), the connection it opened is not
\* left open.
C21_ConnectionReleasedOnError ==
    (op = "NewMigrator" /\ (pc = "crashed" \/ (pc = "done" /\ err # NoErr))) =>
        conn # "open"

\* The version recorded by the last apply this operation committed, or the
\* version it was called at.
PreVersion == IF applied = <<>> THEN cv0 ELSE applied[Len(applied)][1]

\* What CurrentVersion() becomes if the apply under way commits.
PostVersion == CurrentVersionOf(tableExists, RecordVersion(rows, migrations[mig].Version, up))

\* C22: a version query of another connection made while a transaction of
\* applyMigration is open (from Begin to Commit) returns the version recorded
\* before this apply: for an up-direction apply the version of the previous
\* commit (or the one the operation started at), never the version being
\* applied; for a down-direction apply never the version it will leave.
C22_ReaderSeesPreVersion ==
    [][(txOpen /\ seen' # seen) =>
          /\ up => (seen' = PreVersion /\ seen' # migrations[mig].Version)
          /\ (~up /\ applied = <<>>) => seen' = cv0
          /\ (~up /\ migrations[mig].Version \in rows) => seen' # PostVersion]_vars

\* C22 witness: the up-script of version 2 has run and its version is written
\* inside the open transaction; a reader has just been told version 1.
C22_Witness ==
    /\ txOpen /\ up /\ pc = "commit"
    /\ migrations[mig].Version = 2 /\ 2 \in txRows
    /\ <<2, 1>> \in txObjs
    /\ seen = 1

\* C23: the command-line program ends with status 0 exactly when the engine
\* operation of its command (up, down, steps <n>, version) was reached, that
\* is NewMigrator succeeded, and returned no error; on any engine error, a
\* crash of the loader included, the status is not 0.
C23_ExitStatus ==
    exit # -1 =>
        (exit = 0 <=> (pc = "done" /\ op = OpOf(command) /\ err = NoErr))

\* C23 witness: "migrate up" ended with status 1 after Up() returned the
\* error of its second migration.
C23_Witness ==
    /\ command = "up" /\ exit = 1
    /\ Returned("Up") /\ FromApplier
    /\ Len(applied) = 1 /\ invoked = 2

\* C24: when a statement of a script failed, the error the operation returned
\* carries the version of the failing migration, the index of the failing
\* statement and the direction (the "failed to apply" / "failed to rollback"
\* text of the caller).
C24_ScriptErrorNamesVersionStatementDirection ==
    (pc = "done" /\ err.kind = "exec") =>
        /\ err.version = migrations[mig].Version
        /\ err.stmt = stmt
        /\ err.wrap = (IF up THEN "failed to apply" ELSE "failed to rollback")

\* C28: the versions recorded in the tracking table have no gap: every
\* version between two recorded ones is recorded.
C28_NoGaps ==
    \A a \in rows : \A b \in rows : \A v \in a..b : v \in rows

\* C29: while the transaction of a down-direction apply is open (Down() or
\* any step of Steps(n < 0)), the version whose down-script it runs is
\* recorded in the tracking table.
C29_DownOnlyForRecorded ==
    (txOpen /\ ~up) => migrations[mig].Version \in rows

\* C30: whenever Up() has returned success, every version in 1..maxVersion is
\* recorded in the tracking table and has the objects of its up-script
\* committed.
C30_UpSuccessMeansAllApplied ==
    (Returned("Up") /\ err = NoErr) =>
        \A v \in 1..maxVersion :
            v \in rows /\ {<<v, 1>>, <<v, 3>>} \subseteq objs

\* C27: while an up-direction apply of a version that is already in the
\* tracking table runs, the recorded versions never change, and with no
\* injected failure and no cancellation the apply commits and returns no
\* error.
C27_UpRecordIsIdempotent ==
    [][(pc \in {"apply", "begin", "exec", "record", "commit"} /\ up
          /\ migrations[mig].Version \in rows) =>
          /\ rows' = rows
          /\ (pc' = "done" /\ ~injected' /\ ~cancelled') => err' = NoErr]_vars

\* C27 witness: the up-direction apply of version 3, called on a table whose
\* highest version was 3 already, has committed; the table is as it was.
C27_Witness ==
    /\ op = "applyMigration" /\ pc = "done" /\ err = NoErr
    /\ cv0 = 3 /\ applied = <<<<3, TRUE>>>>
    /\ rows = {0, 1, 2, 3}

\* C25: in the single-row implementation the tracking table always holds
\* exactly one row, and after an apply committed that row is the version the
\* apply recorded.
C25_SingleRowStaysSingle ==
    /\ Cardinality(rows) = 1
    /\ applied # <<>> =>
          LET last == applied[Len(applied)] IN
          rows = {IF last[2] THEN last[1] ELSE last[1] - 1}

\* The highest version a migration file was loaded for.
LoadedMaxVersion ==
    SetMax({k - 1 : k \in {j \in 1..Len(migrations) : migrations[j].UpSQL # EmptySQL}})

\* C26: in the single-row implementation Up() never invokes the applier for
\* a version above maxVersion, and with no injected failure and no
\* cancellation it returns success.
C26_SingleRowUpStopsAtMax ==
    /\ (op = "Up" /\ pc = "apply") => mig - 1 <= LoadedMaxVersion
    /\ (Returned("Up") /\ Clean) => err = NoErr

\* C31: with two Migrators running Up() against the same database, no
\* version has its up-script committed by both.
C31_ScriptCommittedAtMostOnce ==
    \A v \in 1..MaxV :
        ~(<<v, TRUE>> \in Range(applied) /\ <<v, TRUE>> \in Range(other.applied))

----------------------------------------------------------------------------

Next ==
    \/ CallUp
    \/ CallDown
    \/ CallSteps
    \/ CallGetCurrentVersion
    \/ CallNew
    \/ Cancel
    \/ NewEntry
    \/ Connect
    \/ Load
    \/ Entry
    \/ GetVersion
    \/ UpLoop
    \/ StepsForwardLoop
    \/ StepsBackLoop
    \/ StepsZero
    \/ DownBody
    \/ ApplyEntry
    \/ Begin
    \/ ExecStmt
    \/ Record
    \/ Commit

Spec == Init /\ [][Next]_vars

----------------------------------------------------------------------------
(* The same program on a bootstrapped database (tracking table holding     *)
(* version 0) with versions 0..RetryMaxV loaded, each with a down-script.  *)

InitRetry ==
    /\ tableExists = TRUE
    /\ rows = {0}
    /\ objs = {}
    /\ txOpen = FALSE
    /\ txRows = rows
    /\ txObjs = objs
    /\ migrations = [k \in 1..(RetryMaxV + 1) |->
                        Migration(k - 1, TwoStmtSQL,
                                  IF k = 1 THEN EmptySQL ELSE TwoStmtSQL)]
    /\ op = "none"
    /\ steps = 0
    /\ pc = "done"
    /\ currentVersion = 0
    /\ version = 0
    /\ i = 0
    /\ mig = 0
    /\ up = TRUE
    /\ stmt = 0
    /\ err = NoErr
    /\ cancelled = FALSE
    /\ cv0 = CurrentVersion
    /\ applied = <<>>
    /\ invoked = 0
    /\ injected = FALSE
    /\ origin = -1
    /\ retryOf = -1
    /\ dir = ListingOf(migrations)
    /\ conn = "open"
    /\ seen = -1
    /\ command = "none"
    /\ exit = -1
    /\ other = NoOther

SpecRetry == InitRetry /\ [][Next]_vars

----------------------------------------------------------------------------
(* The program with a reader on a second connection, on a database that    *)
(* has its tracking table and with versions 0..MaxV loaded, each above 0   *)
(* with a down-script.                                                     *)

InitReader ==
    /\ Init
    /\ tableExists
    /\ Len(migrations) = MaxV + 1
    /\ \A k \in 2..Len(migrations) : migrations[k].DownSQL = TwoStmtSQL

NextReader ==
    \/ Next
    \/ ReaderGetCurrentVersion

SpecReader == InitReader /\ [][NextReader]_vars

----------------------------------------------------------------------------
(* One run of the command-line program: NewMigrator, the operation of the  *)
(* command, the exit.  Its context is context.Background(), which is never *)
(* cancelled.                                                              *)

InitCLI ==
    /\ command \in Commands
    /\ exit = -1
    /\ other = NoOther
    /\ seen = -1
    /\ dir \in {ListingOf(ms) : ms \in MigrationSets}
                \cup {<<File(BigV, "a", "up", TwoStmtSQL)>>}
    /\ migrations = <<>>
    /\ conn = "none"
    /\ op = "NewMigrator"
    /\ pc = "new"
    /\ tableExists \in BOOLEAN
    /\ rows \in IF tableExists THEN {{}, {0}} ELSE {{}}
    /\ objs = {}
    /\ txOpen = FALSE
    /\ txRows = rows
    /\ txObjs = objs
    /\ steps = 0
    /\ currentVersion = 0
    /\ version = 0
    /\ i = 0
    /\ mig = 0
    /\ up = TRUE
    /\ stmt = 0
    /\ err = NoErr
    /\ cancelled = FALSE
    /\ cv0 = CurrentVersion
    /\ applied = <<>>
    /\ invoked = 0
    /\ injected = FALSE
    /\ origin = -1
    /\ retryOf = -1

NextCLI ==
    \/ NewEntry
    \/ Connect
    \/ Load
    \/ Dispatch
    \/ Exit
    \/ Entry
    \/ GetVersion
    \/ UpLoop
    \/ StepsForwardLoop
    \/ StepsBackLoop
    \/ StepsZero
    \/ DownBody
    \/ ApplyEntry
    \/ Begin
    \/ ExecStmt
    \/ Record
    \/ Commit

SpecCLI == InitCLI /\ [][NextCLI]_vars

----------------------------------------------------------------------------
(* applyMigration alone, called for any loaded version above 0 in either   *)
(* direction on any set of recorded versions; the caller returns what it   *)
(* returns.                                                                *)

InitApply ==
    /\ tableExists = TRUE
    /\ rows \in SUBSET (0..MaxV)
    /\ objs = {<<v, k>> : v \in rows \ {0}, k \in {1, 3}}
    /\ txOpen = FALSE
    /\ txRows = rows
    /\ txObjs = objs
    /\ migrations = [k \in 1..(MaxV + 1) |->
                        Migration(k - 1, TwoStmtSQL,
                                  IF k = 1 THEN EmptySQL ELSE TwoStmtSQL)]
    /\ op = "applyMigration"
    /\ steps = 0
    /\ pc = "apply"
    /\ mig \in 2..(MaxV + 1)
    /\ up \in BOOLEAN
    /\ currentVersion = CurrentVersion
    /\ version = 0
    /\ i = 0
    /\ stmt = 0
    /\ err = NoErr
    /\ cancelled = FALSE
    /\ cv0 = CurrentVersion
    /\ applied = <<>>
    /\ invoked = 1
    /\ injected = FALSE
    /\ origin = -1
    /\ retryOf = -1
    /\ dir = ListingOf(migrations)
    /\ conn = "open"
    /\ seen = -1
    /\ command = "none"
    /\ exit = -1
    /\ other = NoOther

NextApply ==
    \/ Cancel
    \/ ApplyEntry
    \/ Begin
    \/ ExecStmt
    \/ Record
    \/ Commit

SpecApply == InitApply /\ [][NextApply]_vars

----------------------------------------------------------------------------
(* The single-row implementation on a bootstrapped database: the tracking  *)
(* table holds the one row 0.                                              *)

InitSingle ==
    /\ tableExists = TRUE
    /\ rows = {0}
    /\ objs = {}
    /\ txOpen = FALSE
    /\ txRows = rows
    /\ txObjs = objs
    /\ dir \in {ListingOf(ms) : ms \in MigrationSets}
    /\ migrations = LoadMigrationsUnsliced(ReadDir(dir))
    /\ op = "none"
    /\ steps = 0
    /\ pc = "done"
    /\ currentVersion = 0
    /\ version = 0
    /\ i = 0
    /\ mig = 0
    /\ up = TRUE
    /\ stmt = 0
    /\ err = NoErr
    /\ cancelled = FALSE
    /\ cv0 = CurrentVersion
    /\ applied = <<>>
    /\ invoked = 0
    /\ injected = FALSE
    /\ origin = -1
    /\ retryOf = -1
    /\ conn = "open"
    /\ seen = -1
    /\ command = "none"
    /\ exit = -1
    /\ other = NoOther

NextSingle ==
    \/ CallUp
    \/ CallDown
    \/ CallSteps
    \/ CallGetCurrentVersion
    \/ Cancel
    \/ Entry
    \/ GetVersionSingle
    \/ UpLoop
    \/ StepsForwardLoop
    \/ StepsBackLoop
    \/ StepsZero
    \/ DownBody
    \/ ApplyEntry
    \/ Begin
    \/ ExecSingle
    \/ RecordSingle
    \/ Commit

SpecSingle == InitSingle /\ [][NextSingle]_vars

----------------------------------------------------------------------------
(* Two Migrators, each running one Up(), on a bootstrapped database.  Of   *)
(* the interleavings of their steps, those in which one begins a           *)
(* transaction while the other's is open are left out: the two             *)
(* transactions of one version touch the same objects and the same         *)
(* tracking row, and the database makes the second wait for the first.     *)

InitTwo ==
    /\ tableExists = TRUE
    /\ rows = {0}
    /\ objs = {}
    /\ txOpen = FALSE
    /\ txRows = rows
    /\ txObjs = objs
    /\ migrations \in MigrationSets
    /\ op = "Up"
    /\ steps = 0
    /\ pc = "entry"
    /\ currentVersion = 0
    /\ version = 0
    /\ i = 0
    /\ mig = 0
    /\ up = TRUE
    /\ stmt = 0
    /\ err = NoErr
    /\ cancelled = FALSE
    /\ cv0 = CurrentVersion
    /\ applied = <<>>
    /\ invoked = 0
    /\ injected = FALSE
    /\ origin = -1
    /\ retryOf = -1
    /\ dir = ListingOf(migrations)
    /\ conn = "open"
    /\ seen = -1
    /\ command = "none"
    /\ exit = -1
    /\ other = [NoOther EXCEPT !.pc = "entry", !.txRows = rows]

NextTwo ==
    \/ Cancel
    \/ Entry
    \/ GetVersion
    \/ UpLoop
    \/ ApplyEntry
    \/ ~other.txOpen /\ Begin
    \/ ExecStmt
    \/ Record
    \/ Commit
    \/ OtherEntry
    \/ OtherGetVersion
    \/ OtherUpLoop
    \/ OtherApplyEntry
    \/ ~txOpen /\ OtherBegin
    \/ OtherExecStmt
    \/ OtherRecord
    \/ OtherCommit

SpecTwo == InitTwo /\ [][NextTwo]_vars

----------------------------------------------------------------------------
(* NewMigrator alone, on every directory of Listings.                      *)

InitLoad ==
    /\ dir \in Listings
    /\ migrations = <<>>
    /\ conn = "none"
    /\ op = "NewMigrator"
    /\ pc = "new"
    /\ tableExists = TRUE
    /\ rows = {0}
    /\ objs = {}
    /\ txOpen = FALSE
    /\ txRows = rows
    /\ txObjs = objs
    /\ steps = 0
    /\ currentVersion = 0
    /\ version = 0
    /\ i = 0
    /\ mig = 0
    /\ up = TRUE
    /\ stmt = 0
    /\ err = NoErr
    /\ cancelled = FALSE
    /\ cv0 = CurrentVersion
    /\ applied = <<>>
    /\ invoked = 0
    /\ injected = FALSE
    /\ origin = -1
    /\ retryOf = -1
    /\ seen = -1
    /\ command = "none"
    /\ exit = -1
    /\ other = NoOther

NextLoad ==
    \/ Cancel
    \/ NewEntry
    \/ Connect
    \/ Load

SpecLoad == InitLoad /\ [][NextLoad]_vars
====
